---------------------------- MODULE Spec2Model ----------------------------
(***************************************************************************)
(* Model of piggytree-web/app.py: the entry store kept in entries.json     *)
(* (add_entry, delete_entry, get_entries over load_json / save_json), the  *)
(* static /api/teams listing, and the ESPN player resolvers behind         *)
(* /api/lookup-player.                                                     *)
(***************************************************************************)
EXTENDS Integers, Sequences, FiniteSets, TLC

VARIABLES
    file,       \* entries.json on disk: [state, data]
    request,    \* the request the sequential facade handled last
    before,     \* the list that request's handler got from load_json
    response,   \* the body of the response to that request
    threads,    \* concurrent store requests: each one's position and locals
    lastSaver,  \* the concurrent request whose save_json ran last (0: none)
    world,      \* a lookup request, ESPN's answers to it and the local clock
    result,     \* the body lookup_player returned
    calls       \* the ESPN requests lookup_player made, in order

storeVars == <<file, request, before, response>>
raceVars == <<threads, lastSaver>>
lookupVars == <<world, result, calls>>
vars == <<file, request, before, response, threads, lastSaver, world, result, calls>>

(***************************************************************************)
(* Bounds of the model.                                                    *)
(***************************************************************************)
MaxEntries == 4          \* add_entry appends only below this count
NumRequests == 2         \* store requests running concurrently
MaxCandidates == 6       \* candidates in one search answer
MaxEvents == 2           \* events in one schedule answer

(***************************************************************************)
(* Python's None and an optional value: None is the empty set, a present   *)
(* value v is {v}.                                                         *)
(***************************************************************************)
None == {}
Some(v) == {v}
Get(opt) == CHOOSE v \in opt : TRUE

(***************************************************************************)
(* Entries.  A submitted entry is the request's JSON object: its "id" key  *)
(* (absent, or an integer) and the client's other fields, of which the     *)
(* store reads none; "pick" stands for them.                               *)
(***************************************************************************)
Picks == {"over", "under", "push"}
SubmittedIds == {None} \cup {Some(i) : i \in -2 .. MaxEntries + 1}
SubmittedEntries == [id : SubmittedIds, pick : Picks]
DeleteIds == 0 .. MaxEntries + 1

(***************************************************************************)
(* The backing file, as what is at ENTRIES_FILE: state is "missing"        *)
(* (os.path.exists is false), "corrupt" (json.load raises) or "json" (data *)
(* is the dumped list).  json.dump followed by json.load gives back an     *)
(* equal list of objects, so data holds the list itself.  load_json and    *)
(* save_json take the file at the path; save_json opens it with "w", which *)
(* discards what was there.                                                *)
(***************************************************************************)
NoFile == [state |-> "missing", data |-> <<>>]
Corrupt == [state |-> "corrupt", data |-> <<>>]

load_json(filepath) == IF filepath.state = "json" THEN filepath.data ELSE <<>>

save_json_append_mode(filepath, data) ==
    IF filepath.state = "missing"
    THEN [state |-> "json", data |-> data]
    ELSE Corrupt

save_json(filepath, data) == [state |-> "json", data |-> data]

(***************************************************************************)
(* add_entry, lines 362-367: replace slot entry_id, or assign id = count   *)
(* and append.                                                             *)
(***************************************************************************)
AddEntryNegativeIndex(entries, data) ==
    LET entry_id == data.id
        n == Len(entries)
    IN  IF entry_id /= None /\ -n <= Get(entry_id) /\ Get(entry_id) < n
        THEN [entries EXCEPT ![((Get(entry_id) + n) % n) + 1] = data]
        ELSE Append(entries, [data EXCEPT !.id = Some(n)])

\* lines 366-367 numbering the appended entry from one
AddEntryOneBased(entries, data) ==
    LET entry_id == data.id
    IN  IF entry_id /= None /\ 0 <= Get(entry_id) /\ Get(entry_id) < Len(entries)
        THEN [entries EXCEPT ![Get(entry_id) + 1] = data]
        ELSE Append(entries, [data EXCEPT !.id = Some(Len(entries) + 1)])

AddEntryBody(entries, data) ==
    LET entry_id == data.id
    IN  IF entry_id /= None /\ 0 <= Get(entry_id) /\ Get(entry_id) < Len(entries)
        THEN [entries EXCEPT ![Get(entry_id) + 1] = data]
        ELSE Append(entries, [data EXCEPT !.id = Some(Len(entries))])

(***************************************************************************)
(* delete_entry, lines 375-378: whether entry_id is a valid index, and the *)
(* list after entries.pop(entry_id) and the enumerate renumbering.         *)
(***************************************************************************)
DeleteValid(entries, entry_id) == 0 <= entry_id /\ entry_id < Len(entries)

Pop(entries, entry_id) ==
    [k \in 1 .. Len(entries) - 1 |->
        IF k <= entry_id THEN entries[k] ELSE entries[k + 1]]

DeleteNoRenumber(entries, entry_id) == Pop(entries, entry_id)

DeleteOneBased(entries, entry_id) ==
    LET popped == Pop(entries, entry_id)
    IN  [k \in 1 .. Len(popped) |-> [popped[k] EXCEPT !.id = Some(k)]]

DeleteEntryBody(entries, entry_id) ==
    LET popped == Pop(entries, entry_id)
    IN  [k \in 1 .. Len(popped) |-> [popped[k] EXCEPT !.id = Some(k - 1)]]

(***************************************************************************)
(* The sequential facade: one request handled at a time.                   *)
(***************************************************************************)
NoRequest == [op |-> "none", id |-> None, pick |-> "over"]
NoResponse == [kind |-> "none", success |-> FALSE, entries |-> <<>>]

NoThreads == <<>>
NoWorld == [league |-> "none"]
NoResult == [kind |-> "none"]

InitStore ==
    /\ file = NoFile
    /\ request = NoRequest
    /\ before = <<>>
    /\ response = NoResponse
    /\ threads = NoThreads
    /\ lastSaver = 0
    /\ world = NoWorld
    /\ result = NoResult
    /\ calls = <<>>

add_entry(data) ==
    LET entries == load_json(file)
        saved == AddEntryBody(entries, data)
    IN  /\ Len(saved) <= MaxEntries
        /\ file' = save_json(file, saved)
        /\ request' = [op |-> "add", id |-> data.id, pick |-> data.pick]
        /\ before' = entries
        /\ response' = [kind |-> "entries", success |-> TRUE, entries |-> saved]
        /\ UNCHANGED <<raceVars, lookupVars>>

delete_entry(entry_id) ==
    LET entries == load_json(file)
    IN  /\ request' = [op |-> "delete", id |-> Some(entry_id), pick |-> "over"]
        /\ before' = entries
        /\ IF DeleteValid(entries, entry_id)
           THEN /\ file' = save_json(file, DeleteEntryBody(entries, entry_id))
                /\ response' = [kind |-> "entries", success |-> TRUE,
                                entries |-> DeleteEntryBody(entries, entry_id)]
           ELSE /\ file' = file
                /\ response' = [kind |-> "entries", success |-> TRUE,
                                entries |-> entries]
        /\ UNCHANGED <<raceVars, lookupVars>>

get_entries ==
    /\ request' = [op |-> "list", id |-> None, pick |-> "over"]
    /\ before' = load_json(file)
    /\ response' = [kind |-> "entries", success |-> TRUE,
                    entries |-> load_json(file)]
    /\ file' = file
    /\ UNCHANGED <<raceVars, lookupVars>>

(***************************************************************************)
(* get_teams, lines 440-467.  A team name is the sequence of the code      *)
(* points of its characters, so that sorted() has the order Python gives   *)
(* to strings: code point by code point, a proper prefix first.            *)
(***************************************************************************)
nfl_teams == <<
    \* Arizona Cardinals
    <<65, 114, 105, 122, 111, 110, 97, 32, 67, 97, 114, 100, 105, 110, 97, 108, 115>>,
    \* Atlanta Falcons
    <<65, 116, 108, 97, 110, 116, 97, 32, 70, 97, 108, 99, 111, 110, 115>>,
    \* Baltimore Ravens
    <<66, 97, 108, 116, 105, 109, 111, 114, 101, 32, 82, 97, 118, 101, 110, 115>>,
    \* Buffalo Bills
    <<66, 117, 102, 102, 97, 108, 111, 32, 66, 105, 108, 108, 115>>,
    \* Carolina Panthers
    <<67, 97, 114, 111, 108, 105, 110, 97, 32, 80, 97, 110, 116, 104, 101, 114, 115>>,
    \* Chicago Bears
    <<67, 104, 105, 99, 97, 103, 111, 32, 66, 101, 97, 114, 115>>,
    \* Cincinnati Bengals
    <<67, 105, 110, 99, 105, 110, 110, 97, 116, 105, 32, 66, 101, 110, 103, 97, 108, 115>>,
    \* Cleveland Browns
    <<67, 108, 101, 118, 101, 108, 97, 110, 100, 32, 66, 114, 111, 119, 110, 115>>,
    \* Dallas Cowboys
    <<68, 97, 108, 108, 97, 115, 32, 67, 111, 119, 98, 111, 121, 115>>,
    \* Denver Broncos
    <<68, 101, 110, 118, 101, 114, 32, 66, 114, 111, 110, 99, 111, 115>>,
    \* Detroit Lions
    <<68, 101, 116, 114, 111, 105, 116, 32, 76, 105, 111, 110, 115>>,
    \* Green Bay Packers
    <<71, 114, 101, 101, 110, 32, 66, 97, 121, 32, 80, 97, 99, 107, 101, 114, 115>>,
    \* Houston Texans
    <<72, 111, 117, 115, 116, 111, 110, 32, 84, 101, 120, 97, 110, 115>>,
    \* Indianapolis Colts
    <<73, 110, 100, 105, 97, 110, 97, 112, 111, 108, 105, 115, 32, 67, 111, 108, 116, 115>>,
    \* Jacksonville Jaguars
    <<74, 97, 99, 107, 115, 111, 110, 118, 105, 108, 108, 101, 32, 74, 97, 103, 117, 97, 114, 115>>,
    \* Kansas City Chiefs
    <<75, 97, 110, 115, 97, 115, 32, 67, 105, 116, 121, 32, 67, 104, 105, 101, 102, 115>>,
    \* Las Vegas Raiders
    <<76, 97, 115, 32, 86, 101, 103, 97, 115, 32, 82, 97, 105, 100, 101, 114, 115>>,
    \* Los Angeles Chargers
    <<76, 111, 115, 32, 65, 110, 103, 101, 108, 101, 115, 32, 67, 104, 97, 114, 103, 101, 114, 115>>,
    \* Los Angeles Rams
    <<76, 111, 115, 32, 65, 110, 103, 101, 108, 101, 115, 32, 82, 97, 109, 115>>,
    \* Miami Dolphins
    <<77, 105, 97, 109, 105, 32, 68, 111, 108, 112, 104, 105, 110, 115>>,
    \* Minnesota Vikings
    <<77, 105, 110, 110, 101, 115, 111, 116, 97, 32, 86, 105, 107, 105, 110, 103, 115>>,
    \* New England Patriots
    <<78, 101, 119, 32, 69, 110, 103, 108, 97, 110, 100, 32, 80, 97, 116, 114, 105, 111, 116, 115>>,
    \* New Orleans Saints
    <<78, 101, 119, 32, 79, 114, 108, 101, 97, 110, 115, 32, 83, 97, 105, 110, 116, 115>>,
    \* New York Giants
    <<78, 101, 119, 32, 89, 111, 114, 107, 32, 71, 105, 97, 110, 116, 115>>,
    \* New York Jets
    <<78, 101, 119, 32, 89, 111, 114, 107, 32, 74, 101, 116, 115>>,
    \* Philadelphia Eagles
    <<80, 104, 105, 108, 97, 100, 101, 108, 112, 104, 105, 97, 32, 69, 97, 103, 108, 101, 115>>,
    \* Pittsburgh Steelers
    <<80, 105, 116, 116, 115, 98, 117, 114, 103, 104, 32, 83, 116, 101, 101, 108, 101, 114, 115>>,
    \* San Francisco 49ers
    <<83, 97, 110, 32, 70, 114, 97, 110, 99, 105, 115, 99, 111, 32, 52, 57, 101, 114, 115>>,
    \* Seattle Seahawks
    <<83, 101, 97, 116, 116, 108, 101, 32, 83, 101, 97, 104, 97, 119, 107, 115>>,
    \* Tampa Bay Buccaneers
    <<84, 97, 109, 112, 97, 32, 66, 97, 121, 32, 66, 117, 99, 99, 97, 110, 101, 101, 114, 115>>,
    \* Tennessee Titans
    <<84, 101, 110, 110, 101, 115, 115, 101, 101, 32, 84, 105, 116, 97, 110, 115>>,
    \* Washington Commanders
    <<87, 97, 115, 104, 105, 110, 103, 116, 111, 110, 32, 67, 111, 109, 109, 97, 110, 100, 101, 114, 115>>
    >>

nba_teams == <<
    \* Atlanta Hawks
    <<65, 116, 108, 97, 110, 116, 97, 32, 72, 97, 119, 107, 115>>,
    \* Boston Celtics
    <<66, 111, 115, 116, 111, 110, 32, 67, 101, 108, 116, 105, 99, 115>>,
    \* Brooklyn Nets
    <<66, 114, 111, 111, 107, 108, 121, 110, 32, 78, 101, 116, 115>>,
    \* Charlotte Hornets
    <<67, 104, 97, 114, 108, 111, 116, 116, 101, 32, 72, 111, 114, 110, 101, 116, 115>>,
    \* Chicago Bulls
    <<67, 104, 105, 99, 97, 103, 111, 32, 66, 117, 108, 108, 115>>,
    \* Cleveland Cavaliers
    <<67, 108, 101, 118, 101, 108, 97, 110, 100, 32, 67, 97, 118, 97, 108, 105, 101, 114, 115>>,
    \* Dallas Mavericks
    <<68, 97, 108, 108, 97, 115, 32, 77, 97, 118, 101, 114, 105, 99, 107, 115>>,
    \* Denver Nuggets
    <<68, 101, 110, 118, 101, 114, 32, 78, 117, 103, 103, 101, 116, 115>>,
    \* Detroit Pistons
    <<68, 101, 116, 114, 111, 105, 116, 32, 80, 105, 115, 116, 111, 110, 115>>,
    \* Golden State Warriors
    <<71, 111, 108, 100, 101, 110, 32, 83, 116, 97, 116, 101, 32, 87, 97, 114, 114, 105, 111, 114, 115>>,
    \* Houston Rockets
    <<72, 111, 117, 115, 116, 111, 110, 32, 82, 111, 99, 107, 101, 116, 115>>,
    \* Indiana Pacers
    <<73, 110, 100, 105, 97, 110, 97, 32, 80, 97, 99, 101, 114, 115>>,
    \* Los Angeles Clippers
    <<76, 111, 115, 32, 65, 110, 103, 101, 108, 101, 115, 32, 67, 108, 105, 112, 112, 101, 114, 115>>,
    \* Los Angeles Lakers
    <<76, 111, 115, 32, 65, 110, 103, 101, 108, 101, 115, 32, 76, 97, 107, 101, 114, 115>>,
    \* Memphis Grizzlies
    <<77, 101, 109, 112, 104, 105, 115, 32, 71, 114, 105, 122, 122, 108, 105, 101, 115>>,
    \* Miami Heat
    <<77, 105, 97, 109, 105, 32, 72, 101, 97, 116>>,
    \* Milwaukee Bucks
    <<77, 105, 108, 119, 97, 117, 107, 101, 101, 32, 66, 117, 99, 107, 115>>,
    \* Minnesota Timberwolves
    <<77, 105, 110, 110, 101, 115, 111, 116, 97, 32, 84, 105, 109, 98, 101, 114, 119, 111, 108, 118, 101, 115>>,
    \* New Orleans Pelicans
    <<78, 101, 119, 32, 79, 114, 108, 101, 97, 110, 115, 32, 80, 101, 108, 105, 99, 97, 110, 115>>,
    \* New York Knicks
    <<78, 101, 119, 32, 89, 111, 114, 107, 32, 75, 110, 105, 99, 107, 115>>,
    \* Oklahoma City Thunder
    <<79, 107, 108, 97, 104, 111, 109, 97, 32, 67, 105, 116, 121, 32, 84, 104, 117, 110, 100, 101, 114>>,
    \* Orlando Magic
    <<79, 114, 108, 97, 110, 100, 111, 32, 77, 97, 103, 105, 99>>,
    \* Philadelphia 76ers
    <<80, 104, 105, 108, 97, 100, 101, 108, 112, 104, 105, 97, 32, 55, 54, 101, 114, 115>>,
    \* Phoenix Suns
    <<80, 104, 111, 101, 110, 105, 120, 32, 83, 117, 110, 115>>,
    \* Portland Trail Blazers
    <<80, 111, 114, 116, 108, 97, 110, 100, 32, 84, 114, 97, 105, 108, 32, 66, 108, 97, 122, 101, 114, 115>>,
    \* Sacramento Kings
    <<83, 97, 99, 114, 97, 109, 101, 110, 116, 111, 32, 75, 105, 110, 103, 115>>,
    \* San Antonio Spurs
    <<83, 97, 110, 32, 65, 110, 116, 111, 110, 105, 111, 32, 83, 112, 117, 114, 115>>,
    \* Toronto Raptors
    <<84, 111, 114, 111, 110, 116, 111, 32, 82, 97, 112, 116, 111, 114, 115>>,
    \* Utah Jazz
    <<85, 116, 97, 104, 32, 74, 97, 122, 122>>,
    \* Washington Wizards
    <<87, 97, 115, 104, 105, 110, 103, 116, 111, 110, 32, 87, 105, 122, 97, 114, 100, 115>>
    >>

mlb_teams == <<
    \* Arizona Diamondbacks
    <<65, 114, 105, 122, 111, 110, 97, 32, 68, 105, 97, 109, 111, 110, 100, 98, 97, 99, 107, 115>>,
    \* Atlanta Braves
    <<65, 116, 108, 97, 110, 116, 97, 32, 66, 114, 97, 118, 101, 115>>,
    \* Baltimore Orioles
    <<66, 97, 108, 116, 105, 109, 111, 114, 101, 32, 79, 114, 105, 111, 108, 101, 115>>,
    \* Boston Red Sox
    <<66, 111, 115, 116, 111, 110, 32, 82, 101, 100, 32, 83, 111, 120>>,
    \* Chicago Cubs
    <<67, 104, 105, 99, 97, 103, 111, 32, 67, 117, 98, 115>>,
    \* Chicago White Sox
    <<67, 104, 105, 99, 97, 103, 111, 32, 87, 104, 105, 116, 101, 32, 83, 111, 120>>,
    \* Cincinnati Reds
    <<67, 105, 110, 99, 105, 110, 110, 97, 116, 105, 32, 82, 101, 100, 115>>,
    \* Cleveland Guardians
    <<67, 108, 101, 118, 101, 108, 97, 110, 100, 32, 71, 117, 97, 114, 100, 105, 97, 110, 115>>,
    \* Colorado Rockies
    <<67, 111, 108, 111, 114, 97, 100, 111, 32, 82, 111, 99, 107, 105, 101, 115>>,
    \* Detroit Tigers
    <<68, 101, 116, 114, 111, 105, 116, 32, 84, 105, 103, 101, 114, 115>>,
    \* Houston Astros
    <<72, 111, 117, 115, 116, 111, 110, 32, 65, 115, 116, 114, 111, 115>>,
    \* Kansas City Royals
    <<75, 97, 110, 115, 97, 115, 32, 67, 105, 116, 121, 32, 82, 111, 121, 97, 108, 115>>,
    \* Los Angeles Angels
    <<76, 111, 115, 32, 65, 110, 103, 101, 108, 101, 115, 32, 65, 110, 103, 101, 108, 115>>,
    \* Los Angeles Dodgers
    <<76, 111, 115, 32, 65, 110, 103, 101, 108, 101, 115, 32, 68, 111, 100, 103, 101, 114, 115>>,
    \* Miami Marlins
    <<77, 105, 97, 109, 105, 32, 77, 97, 114, 108, 105, 110, 115>>,
    \* Milwaukee Brewers
    <<77, 105, 108, 119, 97, 117, 107, 101, 101, 32, 66, 114, 101, 119, 101, 114, 115>>,
    \* Minnesota Twins
    <<77, 105, 110, 110, 101, 115, 111, 116, 97, 32, 84, 119, 105, 110, 115>>,
    \* New York Yankees
    <<78, 101, 119, 32, 89, 111, 114, 107, 32, 89, 97, 110, 107, 101, 101, 115>>,
    \* New York Mets
    <<78, 101, 119, 32, 89, 111, 114, 107, 32, 77, 101, 116, 115>>,
    \* Oakland Athletics
    <<79, 97, 107, 108, 97, 110, 100, 32, 65, 116, 104, 108, 101, 116, 105, 99, 115>>,
    \* Philadelphia Phillies
    <<80, 104, 105, 108, 97, 100, 101, 108, 112, 104, 105, 97, 32, 80, 104, 105, 108, 108, 105, 101, 115>>,
    \* Pittsburgh Pirates
    <<80, 105, 116, 116, 115, 98, 117, 114, 103, 104, 32, 80, 105, 114, 97, 116, 101, 115>>,
    \* San Diego Padres
    <<83, 97, 110, 32, 68, 105, 101, 103, 111, 32, 80, 97, 100, 114, 101, 115>>,
    \* San Francisco Giants
    <<83, 97, 110, 32, 70, 114, 97, 110, 99, 105, 115, 99, 111, 32, 71, 105, 97, 110, 116, 115>>,
    \* Seattle Mariners
    <<83, 101, 97, 116, 116, 108, 101, 32, 77, 97, 114, 105, 110, 101, 114, 115>>,
    \* St. Louis Cardinals
    <<83, 116, 46, 32, 76, 111, 117, 105, 115, 32, 67, 97, 114, 100, 105, 110, 97, 108, 115>>,
    \* Tampa Bay Rays
    <<84, 97, 109, 112, 97, 32, 66, 97, 121, 32, 82, 97, 121, 115>>,
    \* Texas Rangers
    <<84, 101, 120, 97, 115, 32, 82, 97, 110, 103, 101, 114, 115>>,
    \* Toronto Blue Jays
    <<84, 111, 114, 111, 110, 116, 111, 32, 66, 108, 117, 101, 32, 74, 97, 121, 115>>,
    \* Washington Nationals
    <<87, 97, 115, 104, 105, 110, 103, 116, 111, 110, 32, 78, 97, 116, 105, 111, 110, 97, 108, 115>>
    >>

RECURSIVE StrLessFrom(_, _, _)
StrLessFrom(a, b, i) ==
    IF i > Len(b) THEN FALSE
    ELSE IF i > Len(a) THEN TRUE
    ELSE IF a[i] = b[i] THEN StrLessFrom(a, b, i + 1)
    ELSE a[i] < b[i]

StrLess(a, b) == StrLessFrom(a, b, 1)

\* the position sorted() gives to list[i]: after every smaller element and,
\* the sort being stable, after every equal element that came before it
SortedPosition(list, i) ==
    Cardinality({j \in 1 .. Len(list) :
        \/ StrLess(list[j], list[i])
        \/ (list[j] = list[i] /\ j < i)}) + 1

unsorted(list) == list

sorted(list) ==
    LET position == [i \in 1 .. Len(list) |-> SortedPosition(list, i)]
    IN  [k \in 1 .. Len(list) |->
            list[CHOOSE i \in 1 .. Len(list) : position[i] = k]]

TeamsBody == sorted(nfl_teams \o nba_teams \o mlb_teams)

get_teams ==
    /\ request' = [op |-> "teams", id |-> None, pick |-> "over"]
    /\ before' = before
    /\ response' = [kind |-> "teams", success |-> TRUE, entries |-> TeamsBody]
    /\ file' = file
    /\ UNCHANGED <<raceVars, lookupVars>>

Next ==
    \/ \E data \in SubmittedEntries : add_entry(data)
    \/ \E entry_id \in DeleteIds : delete_entry(entry_id)
    \/ get_entries
    \/ get_teams

Spec == InitStore /\ [][Next]_vars

(***************************************************************************)
(* Concurrent store requests.  A handler is a load_json of the whole file  *)
(* followed by a save_json of the whole file, with nothing held between    *)
(* the two: the requests interleave at these two steps.                    *)
(***************************************************************************)
Requests == 1 .. NumRequests

RaceEntries == [id : {None, Some(0), Some(1)}, pick : {"over", "under"}]
RaceDeleteIds == 0 .. 1

RaceStores ==
    { <<>>,
      <<[id |-> Some(0), pick |-> "push"]>>,
      <<[id |-> Some(0), pick |-> "push"], [id |-> Some(1), pick |-> "push"]>> }

NotStarted ==
    [pc |-> "start", op |-> "none", id |-> None, pick |-> "over",
     entries |-> <<>>, success |-> FALSE]

InitRace ==
    /\ file \in {NoFile} \cup {save_json(NoFile, st) : st \in RaceStores \ {<<>>}}
    /\ threads = [t \in Requests |-> NotStarted]
    /\ lastSaver = 0
    /\ request = NoRequest
    /\ before = <<>>
    /\ response = NoResponse
    /\ world = NoWorld
    /\ result = NoResult
    /\ calls = <<>>

\* lines 359-360 and 374: the request arrives and the handler loads the file
race_load_add(t, data) ==
    /\ threads[t].pc = "start"
    /\ threads' = [threads EXCEPT ![t] =
            [pc |-> "loaded", op |-> "add", id |-> data.id, pick |-> data.pick,
             entries |-> load_json(file), success |-> FALSE]]
    /\ UNCHANGED <<file, lastSaver, request, before, response, lookupVars>>

race_load_delete(t, entry_id) ==
    /\ threads[t].pc = "start"
    /\ threads' = [threads EXCEPT ![t] =
            [pc |-> "loaded", op |-> "delete", id |-> Some(entry_id),
             pick |-> "over", entries |-> load_json(file), success |-> FALSE]]
    /\ UNCHANGED <<file, lastSaver, request, before, response, lookupVars>>

\* lines 362-370: add_entry changes its own list, saves it and responds
race_save_add(t) ==
    LET th == threads[t]
        saved == AddEntryBody(th.entries, [id |-> th.id, pick |-> th.pick])
    IN  /\ th.pc = "loaded"
        /\ th.op = "add"
        /\ file' = save_json(file, saved)
        /\ lastSaver' = t
        /\ threads' = [threads EXCEPT ![t] =
                [th EXCEPT !.pc = "done", !.entries = saved, !.success = TRUE]]
        /\ UNCHANGED <<request, before, response, lookupVars>>

\* lines 375-380: delete_entry saves only when the index is valid
race_save_delete(t) ==
    LET th == threads[t]
        entry_id == Get(th.id)
    IN  /\ th.pc = "loaded"
        /\ th.op = "delete"
        /\ IF DeleteValid(th.entries, entry_id)
           THEN /\ file' = save_json(file, DeleteEntryBody(th.entries, entry_id))
                /\ lastSaver' = t
                /\ threads' = [threads EXCEPT ![t] =
                        [th EXCEPT !.pc = "done", !.success = TRUE,
                                   !.entries = DeleteEntryBody(th.entries, entry_id)]]
           ELSE /\ file' = file
                /\ lastSaver' = lastSaver
                /\ threads' = [threads EXCEPT ![t] =
                        [th EXCEPT !.pc = "done", !.success = TRUE]]
        /\ UNCHANGED <<request, before, response, lookupVars>>

NextRace ==
    \/ \E t \in Requests, data \in RaceEntries : race_load_add(t, data)
    \/ \E t \in Requests, entry_id \in RaceDeleteIds : race_load_delete(t, entry_id)
    \/ \E t \in Requests : race_save_add(t)
    \/ \E t \in Requests : race_save_delete(t)

SpecRace == InitRace /\ [][NextRace]_vars

AllDone == \A t \in Requests : threads[t].pc = "done"

(***************************************************************************)
(* Text.  A string is the sequence of its characters; "e_acute" and        *)
(* "E_acute" are the precomposed U+00E9 and U+00C9, "acute" the combining  *)
(* mark U+0301 (category Mn), " " a space.                                 *)
(***************************************************************************)
NFD(c) ==
    CASE c = "e_acute" -> <<"e", "acute">>
      [] c = "E_acute" -> <<"E", "acute">>
      [] OTHER -> <<c>>

IsMn(c) == c = "acute"

Lower(c) ==
    CASE c = "J" -> "j"
      [] c = "O" -> "o"
      [] c = "S" -> "s"
      [] c = "E" -> "e"
      [] c = "H" -> "h"
      [] c = "U" -> "u"
      [] c = "E_acute" -> "e_acute"
      [] OTHER -> c

RECURSIVE Decompose(_)
Decompose(text) ==
    IF text = <<>> THEN <<>> ELSE NFD(Head(text)) \o Decompose(Tail(text))

NotMn(c) == ~IsMn(c)

\* lines 72-76
normalize_name(text) ==
    LET normalized == Decompose(text)
        ascii_text == SelectSeq(normalized, NotMn)
    IN  [k \in 1 .. Len(ascii_text) |-> Lower(ascii_text[k])]

RECURSIVE lstrip(_)
lstrip(text) ==
    IF text /= <<>> /\ Head(text) = " " THEN lstrip(Tail(text)) ELSE text

RECURSIVE rstrip(_)
rstrip(text) ==
    IF text /= <<>> /\ text[Len(text)] = " "
    THEN rstrip(SubSeq(text, 1, Len(text) - 1))
    ELSE text

strip(text) == rstrip(lstrip(text))

Unknown == <<"U", "n", "k", "n", "o", "w", "n">>

(***************************************************************************)
(* Reference tables, lines 21-54 and 246-268.                              *)
(***************************************************************************)
NFL_TEAMS ==
    [
      ARI |-> "Arizona Cardinals", ATL |-> "Atlanta Falcons",
      BAL |-> "Baltimore Ravens", BUF |-> "Buffalo Bills",
      CAR |-> "Carolina Panthers", CHI |-> "Chicago Bears",
      CIN |-> "Cincinnati Bengals", CLE |-> "Cleveland Browns",
      DAL |-> "Dallas Cowboys", DEN |-> "Denver Broncos",
      DET |-> "Detroit Lions", GB |-> "Green Bay Packers",
      HOU |-> "Houston Texans", IND |-> "Indianapolis Colts",
      JAX |-> "Jacksonville Jaguars", KC |-> "Kansas City Chiefs",
      LV |-> "Las Vegas Raiders", LAC |-> "Los Angeles Chargers",
      LAR |-> "Los Angeles Rams", MIA |-> "Miami Dolphins",
      MIN |-> "Minnesota Vikings", NE |-> "New England Patriots",
      NO |-> "New Orleans Saints", NYG |-> "New York Giants",
      NYJ |-> "New York Jets", PHI |-> "Philadelphia Eagles",
      PIT |-> "Pittsburgh Steelers", SF |-> "San Francisco 49ers",
      SEA |-> "Seattle Seahawks", TB |-> "Tampa Bay Buccaneers",
      TEN |-> "Tennessee Titans", WAS |-> "Washington Commanders",
      WSH |-> "Washington Commanders"
    ]

NBA_TEAMS ==
    [
      ATL |-> "Atlanta Hawks", BOS |-> "Boston Celtics",
      BKN |-> "Brooklyn Nets", CHA |-> "Charlotte Hornets",
      CHI |-> "Chicago Bulls", CLE |-> "Cleveland Cavaliers",
      DAL |-> "Dallas Mavericks", DEN |-> "Denver Nuggets",
      DET |-> "Detroit Pistons", GS |-> "Golden State Warriors",
      GSW |-> "Golden State Warriors", HOU |-> "Houston Rockets",
      IND |-> "Indiana Pacers", LAC |-> "Los Angeles Clippers",
      LA |-> "Los Angeles Clippers", LAL |-> "Los Angeles Lakers",
      MEM |-> "Memphis Grizzlies", MIA |-> "Miami Heat",
      MIL |-> "Milwaukee Bucks", MIN |-> "Minnesota Timberwolves",
      NO |-> "New Orleans Pelicans", NOP |-> "New Orleans Pelicans",
      NY |-> "New York Knicks", NYK |-> "New York Knicks",
      OKC |-> "Oklahoma City Thunder", ORL |-> "Orlando Magic",
      PHI |-> "Philadelphia 76ers", PHX |-> "Phoenix Suns",
      POR |-> "Portland Trail Blazers", SAC |-> "Sacramento Kings",
      SA |-> "San Antonio Spurs", SAS |-> "San Antonio Spurs",
      TOR |-> "Toronto Raptors", UTA |-> "Utah Jazz",
      UTAH |-> "Utah Jazz", WAS |-> "Washington Wizards",
      WSH |-> "Washington Wizards"
    ]

position_map ==
    [
      QB |-> "Quarterback (QB)", RB |-> "Running Back (RB)", FB |-> "Running Back (RB)",
      WR |-> "Wide Receiver (WR)", TE |-> "Wide Receiver (WR)", K |-> "Kicker (K)",
      P |-> "Kicker (K)", LB |-> "NFL Defense Player", DE |-> "NFL Defense Player",
      DT |-> "NFL Defense Player", CB |-> "NFL Defense Player", S |-> "NFL Defense Player",
      SS |-> "NFL Defense Player", FS |-> "NFL Defense Player", OLB |-> "NFL Defense Player",
      ILB |-> "NFL Defense Player", MLB |-> "NFL Defense Player", NT |-> "NFL Defense Player",
      DB |-> "NFL Defense Player", DL |-> "NFL Defense Player", EDGE |-> "NFL Defense Player"
    ]

\* dict.get(key, default), with default for an absent key
TableGet(table, key, default) ==
    IF key \in DOMAIN table THEN table[key] ELSE default

\* d.get(key, default) of a provider document: field is None when the key is absent
GetOr(field, default) == IF field = None THEN default ELSE Get(field)

Min(S) == CHOOSE x \in S : \A y \in S : x <= y

(***************************************************************************)
(* Results of a resolution.                                                *)
(***************************************************************************)
Err(message) == [kind |-> "error", error |-> message]

Multiple(player_list) == [kind |-> "multiple", multiple |-> player_list]

\* an ESPN request that raised (a timeout, a refused connection) ends the
\* function in its outer except clause with str(e)
Raised(resp) == resp.outcome = "raise"

(***************************************************************************)
(* Candidate selection, lines 198-213 (NFL) and 99-114 (NBA), the same     *)
(* code in both.  A candidate is [displayName, id, teamRelationships],     *)
(* an absent key None; teamRelationships holds the "core" of each          *)
(* relationship: [abbreviation, displayName, id].                          *)
(***************************************************************************)
\* lines 200-203 comparing the displayName as given with the normalized query
exact_match_raw(players, search_normalized) ==
    LET hits == {i \in 1 .. Len(players) :
                    GetOr(players[i].displayName, <<>>) = search_normalized}
    IN  IF hits = {} THEN 0 ELSE Min(hits)

\* lines 199-203: the index of the first candidate whose normalized
\* displayName is the normalized query, 0 for exact_match = None
exact_match(players, search_normalized) ==
    LET hits == {i \in 1 .. Len(players) :
                    normalize_name(GetOr(players[i].displayName, <<>>))
                        = search_normalized}
    IN  IF hits = {} THEN 0 ELSE Min(hits)

\* lines 209-213 without the [:5] slice
player_list_uncapped(players) ==
    [k \in 1 .. Len(players) |->
        LET p == players[k]
            team_rels == p.teamRelationships
            team_abbr == IF team_rels /= <<>>
                         THEN GetOr(team_rels[1].abbreviation, "?")
                         ELSE "?"
        IN  [name |-> p.displayName, team |-> team_abbr]]

\* lines 208-213
player_list(players) ==
    [k \in 1 .. (IF Len(players) < 5 THEN Len(players) ELSE 5) |->
        LET p == players[k]
            team_rels == p.teamRelationships
            team_abbr == IF team_rels /= <<>>
                         THEN GetOr(team_rels[1].abbreviation, "?")
                         ELSE "?"
        IN  [name |-> p.displayName, team |-> team_abbr]]

\* lines 219-228 and 119-128
TeamOf(player, TEAMS) ==
    LET team_rels == player.teamRelationships
    IN  IF team_rels /= <<>>
        THEN LET team_core == team_rels[1]
                 team_abbr == GetOr(team_core.abbreviation, "")
             IN  [team_abbr |-> team_abbr,
                  team_name |-> GetOr(team_core.displayName,
                                      TableGet(TEAMS, team_abbr, "Unknown")),
                  team_id |-> GetOr(team_core.id, "")]
        ELSE [team_abbr |-> "", team_name |-> "Unknown", team_id |-> ""]

(***************************************************************************)
(* Next opponent, lines 278-303 (NFL) and 137-162 (NBA), the same code in  *)
(* both.  An event is [date, competitions]: date.kind is "absent" (no      *)
(* "date" key), "empty" (""), "bad" (fromisoformat raises) or "iso", with  *)
(* day the UTC calendar day of the instant; competitions holds each        *)
(* competition's competitors, a competitor being its "team" document       *)
(* [id, abbreviation, displayName].  The clock is [day, hour], local.      *)
(***************************************************************************)
NoGame == [next_opponent |-> None, game_date |-> None]

\* lines 282-284 without the late-night day
ReferenceDayNoRollover(now) == now.day

\* lines 282-284: now.date() after the 22:00 rule
ReferenceDay(now) == IF now.hour >= 22 THEN now.day + 1 ELSE now.day

\* lines 292-300: the first competitor of the first competition whose
\* abbreviation is not the player's team's
OpponentIn(event, team_abbr, TEAMS) ==
    LET competitions == event.competitions
    IN  IF competitions = <<>>
        THEN NoGame
        ELSE LET competitors == competitions[1]
                 others == {k \in 1 .. Len(competitors) :
                               GetOr(competitors[k].abbreviation, "") /= team_abbr}
             IN  IF others = {}
                 THEN NoGame
                 ELSE LET comp == competitors[Min(others)]
                          comp_abbr == GetOr(comp.abbreviation, "")
                      IN  [next_opponent |->
                               Some(TableGet(TEAMS, comp_abbr,
                                             GetOr(comp.displayName, "Unknown"))),
                           game_date |-> Some(event.date.day)]

\* lines 286-303: the scan stops at the first event it can date on or after
\* today, whether or not that event gave an opponent
RECURSIVE NextGame(_, _, _, _)
NextGame(events, today, team_abbr, TEAMS) ==
    IF events = <<>>
    THEN NoGame
    ELSE LET event == Head(events)
         IN  IF event.date.kind \in {"absent", "empty", "bad"}
             THEN NextGame(Tail(events), today, team_abbr, TEAMS)
             ELSE IF event.date.day >= today
             THEN OpponentIn(event, team_abbr, TEAMS)
             ELSE NextGame(Tail(events), today, team_abbr, TEAMS)

(***************************************************************************)
(* get_nfl_player_info, lines 180-317.  Each returns the result and the    *)
(* ESPN requests made on the way.                                          *)
(***************************************************************************)
\* lines 230-244 and 269: the athlete request is inside its own try/except
PositionAbbr(player_id, athlete) ==
    IF player_id = "" \/ Raised(athlete) \/ athlete.status /= 200
        \/ athlete.position = None
    THEN None
    ELSE Some(GetOr(Get(athlete.position).abbreviation, ""))

FormPosition(position_abbr) ==
    IF position_abbr = None
    THEN "Quarterback (QB)"
    ELSE TableGet(position_map, Get(position_abbr), "Quarterback (QB)")

\* lines 215-314
NflDetail(player, w, made) ==
    LET player_full_name == GetOr(player.displayName, Unknown)
        player_id == GetOr(player.id, "")
        team == TeamOf(player, NFL_TEAMS)
        position_abbr == PositionAbbr(player_id, w.athlete)
        made2 == IF player_id /= "" THEN Append(made, "nfl_athlete") ELSE made
        made3 == IF team.team_id /= "" THEN Append(made2, "nfl_schedule") ELSE made2
        sched_response == w.schedule.nfl
        game == IF team.team_id /= "" /\ sched_response.status = 200
                THEN NextGame(sched_response.events, ReferenceDay(w.now),
                              team.team_abbr, NFL_TEAMS)
                ELSE NoGame
    IN  IF team.team_id /= "" /\ Raised(sched_response)
        THEN [result |-> Err(sched_response.message), calls |-> made3]
        ELSE [result |->
                 [kind |-> "resolved",
                  player |-> player_full_name,
                  team |-> team.team_name,
                  team_abbr |-> team.team_abbr,
                  next_opponent |-> game.next_opponent,
                  game_date |-> game.game_date,
                  league |-> "NFL",
                  position |-> FormPosition(position_abbr),
                  position_abbr |-> position_abbr],
              calls |-> made3]

get_nfl_player_info(player_name, w) ==
    LET search_normalized == normalize_name(player_name)
        search_response == w.search.nfl
        made == <<"nfl_search">>
    IN  IF Raised(search_response)
        THEN [result |-> Err(search_response.message), calls |-> made]
        ELSE IF search_response.status /= 200
        THEN [result |-> Err("Failed to search for player"), calls |-> made]
        ELSE LET nfl_players == search_response.items
                 found == exact_match(nfl_players, search_normalized)
             IN  IF nfl_players = <<>>
                 THEN [result |-> Err("No NFL player found matching"),
                       calls |-> made]
                 ELSE IF Len(nfl_players) > 1 /\ found = 0
                 THEN [result |-> Multiple(player_list(nfl_players)),
                       calls |-> made]
                 ELSE NflDetail(IF Len(nfl_players) > 1
                                THEN nfl_players[found]
                                ELSE nfl_players[1], w, made)

(***************************************************************************)
(* get_nba_player_info, lines 81-175.                                      *)
(***************************************************************************)
\* lines 116-172
NbaDetail(player, w, made) ==
    LET player_full_name == GetOr(player.displayName, Unknown)
        team == TeamOf(player, NBA_TEAMS)
        made2 == IF team.team_id /= "" THEN Append(made, "nba_schedule") ELSE made
        sched_response == w.schedule.nba
        game == IF team.team_id /= "" /\ sched_response.status = 200
                THEN NextGame(sched_response.events, ReferenceDay(w.now),
                              team.team_abbr, NBA_TEAMS)
                ELSE NoGame
    IN  IF team.team_id /= "" /\ Raised(sched_response)
        THEN [result |-> Err(sched_response.message), calls |-> made2]
        ELSE [result |->
                 [kind |-> "resolved",
                  player |-> player_full_name,
                  team |-> team.team_name,
                  team_abbr |-> team.team_abbr,
                  next_opponent |-> game.next_opponent,
                  game_date |-> game.game_date,
                  league |-> "NBA",
                  position |-> "NBA Player"],
              calls |-> made2]

get_nba_player_info(player_name, w) ==
    LET search_normalized == normalize_name(player_name)
        search_response == w.search.nba
        made == <<"nba_search">>
    IN  IF Raised(search_response)
        THEN [result |-> Err(search_response.message), calls |-> made]
        ELSE IF search_response.status /= 200
        THEN [result |-> Err("Failed to search for player"), calls |-> made]
        ELSE LET nba_players == search_response.items
                 found == exact_match(nba_players, search_normalized)
             IN  IF nba_players = <<>>
                 THEN [result |-> Err("No NBA player found matching"),
                       calls |-> made]
                 ELSE IF Len(nba_players) > 1 /\ found = 0
                 THEN [result |-> Multiple(player_list(nba_players)),
                       calls |-> made]
                 ELSE NbaDetail(IF Len(nba_players) > 1
                                THEN nba_players[found]
                                ELSE nba_players[1], w, made)

(***************************************************************************)
(* lookup_player, lines 326-350.                                           *)
(***************************************************************************)
\* result.get("error") as a condition: a key that is there and not empty
ErrorIsTruthy(res) == res.kind = "error" /\ res.error /= ""

LookupOutcome(w) ==
    LET player_name == strip(w.player_name)
    IN  IF player_name = <<>>
        THEN [result |-> Err("No player name provided"), calls |-> <<>>]
        ELSE IF w.league = "nfl"
        THEN get_nfl_player_info(player_name, w)
        ELSE IF w.league = "nba"
        THEN get_nba_player_info(player_name, w)
        ELSE LET nfl == get_nfl_player_info(player_name, w)
                 nba == get_nba_player_info(player_name, w)
             IN  IF ~ErrorIsTruthy(nfl.result)
                 THEN nfl
                 ELSE IF ~ErrorIsTruthy(nba.result)
                 THEN [result |-> nba.result, calls |-> nfl.calls \o nba.calls]
                 ELSE [result |-> Err("No player found matching in NFL or NBA"),
                       calls |-> nfl.calls \o nba.calls]

lookup_player ==
    /\ result = NoResult
    /\ result' = LookupOutcome(world).result
    /\ calls' = LookupOutcome(world).calls
    /\ world' = world
    /\ UNCHANGED <<storeVars, raceVars>>

(***************************************************************************)
(* The lookups checked: a request, ESPN's answer to each request the       *)
(* resolvers can make, and the local clock.  An answer is [outcome,        *)
(* status, message, ...]: outcome "raise" is requests.get raising (a       *)
(* timeout, a connection error) with str(e) = message, which is "" for an  *)
(* exception built without arguments.                                      *)
(***************************************************************************)
SeqsUpTo(S, n) == UNION {[1 .. k -> S] : k \in 0 .. n}

SearchOk(items) ==
    [outcome |-> "ok", status |-> 200, message |-> "", items |-> items]
SearchStatus(status) ==
    [outcome |-> "ok", status |-> status, message |-> "", items |-> <<>>]
SearchRaise(message) ==
    [outcome |-> "raise", status |-> 0, message |-> message, items |-> <<>>]

SchedOk(events) ==
    [outcome |-> "ok", status |-> 200, message |-> "", events |-> events]
SchedStatus(status) ==
    [outcome |-> "ok", status |-> status, message |-> "", events |-> <<>>]
SchedRaise(message) ==
    [outcome |-> "raise", status |-> 0, message |-> message, events |-> <<>>]

AthleteOk(position) ==
    [outcome |-> "ok", status |-> 200, message |-> "", position |-> position]
AthleteStatus(status) ==
    [outcome |-> "ok", status |-> status, message |-> "", position |-> None]
AthleteRaise(message) ==
    [outcome |-> "raise", status |-> 0, message |-> message, position |-> None]

\* names and queries
Jose_accent == <<"J", "o", "s", "e_acute">>
JOSE_upper == <<"J", "O", "S", "E">>
Josh == <<"J", "o", "s", "h">>
jose_query == <<"j", "o", "s", "e">>
Jo_query == <<"J", "o">>

\* teams as ESPN gives them in a candidate
MiamiCore == [abbreviation |-> Some("MIA"), displayName |-> Some("Miami (ESPN)"),
              id |-> Some("15")]
WashingtonCore == [abbreviation |-> Some("WSH"), displayName |-> None, id |-> None]
IdOnlyCore == [abbreviation |-> None, displayName |-> None, id |-> Some("15")]
AbbrOnlyCore == [abbreviation |-> Some("MIA"), displayName |-> None, id |-> None]

Candidate(displayName, id, teamRelationships) ==
    [displayName |-> displayName, id |-> id,
     teamRelationships |-> teamRelationships]

MatchPool ==
    { Candidate(Some(Jose_accent), Some("p1"), <<MiamiCore>>),
      Candidate(Some(JOSE_upper), Some("p2"), <<WashingtonCore>>),
      Candidate(Some(Josh), None, <<>>),
      Candidate(None, Some("p4"), <<IdOnlyCore>>) }

DetailPool ==
    { Candidate(Some(Jose_accent), Some("p1"), <<MiamiCore>>),
      Candidate(None, Some("p4"), <<IdOnlyCore>>) }

AthletePool ==
    { Candidate(Some(Jose_accent), Some("p1"), <<MiamiCore>>),
      Candidate(Some(JOSE_upper), Some("p2"), <<AbbrOnlyCore>>),
      Candidate(Some(Josh), None, <<>>) }

\* competitors of a schedule event
OwnTeam == [id |-> "15", abbreviation |-> Some("MIA"), displayName |-> Some("Miami (ESPN)")]
Opponent == [id |-> "28", abbreviation |-> Some("WSH"), displayName |-> None]
OpponentNoAbbr == [id |-> "28", abbreviation |-> None, displayName |-> Some("Washington (ESPN)")]
OpponentNotInTable == [id |-> "99", abbreviation |-> Some("XXX"), displayName |-> None]

Competitions ==
    { <<>>,
      << <<OwnTeam, Opponent>> >>,
      << <<Opponent, OwnTeam>> >>,
      << <<OwnTeam>> >>,
      << <<OpponentNoAbbr, OwnTeam>> >> }

EventDates ==
    { [kind |-> "absent", day |-> 0], [kind |-> "bad", day |-> 0] }
        \cup { [kind |-> "iso", day |-> d] : d \in 1 .. 2 }

Events == [date : EventDates, competitions : Competitions]

Clocks == [day : {1}, hour : {21, 22}]

Noon == [day |-> 1, hour |-> 12]
OneGame ==
    SchedOk(<< [date |-> [kind |-> "iso", day |-> 1],
                competitions |-> << <<OwnTeam, Opponent>> >>] >>)
Receiver == AthleteOk(Some([abbreviation |-> Some("WR")]))

World(player_name, league, search, athlete, schedule, now) ==
    [player_name |-> player_name, league |-> league, search |-> search,
     athlete |-> athlete, schedule |-> schedule, now |-> now]

ForLeague(league, x, other) ==
    IF league = "nfl" THEN [nfl |-> x, nba |-> other] ELSE [nfl |-> other, nba |-> x]

\* candidate selection: every search answer of up to MaxCandidates candidates
MatchWorlds ==
    { World(q, league, ForLeague(league, SearchOk(items), SearchStatus(500)),
            Receiver, [nfl |-> OneGame, nba |-> OneGame], Noon) :
        q \in {jose_query, Jo_query},
        league \in {"nfl", "nba"},
        items \in SeqsUpTo(MatchPool, MaxCandidates) }

\* next opponent: one candidate, every schedule answer of up to MaxEvents events
ScheduleWorlds ==
    { World(jose_query, league,
            ForLeague(league, SearchOk(<<c>>), SearchStatus(500)),
            Receiver,
            ForLeague(league, SchedOk(events), SchedStatus(500)), now) :
        league \in {"nfl", "nba"},
        c \in DetailPool,
        events \in SeqsUpTo(Events, MaxEvents),
        now \in Clocks }

\* failing requests after the search
AthleteAnswers ==
    { AthleteOk(None), AthleteOk(Some([abbreviation |-> None])),
      AthleteOk(Some([abbreviation |-> Some("WR")])),
      AthleteOk(Some([abbreviation |-> Some("LS")])),
      AthleteStatus(404), AthleteRaise("Read timed out.") }

NotInTableGame ==
    SchedOk(<< [date |-> [kind |-> "iso", day |-> 1],
                competitions |-> << <<OwnTeam, OpponentNotInTable>> >>] >>)

\* the player's own team listed without its abbreviation
OwnTeamNoAbbr == [id |-> "15", abbreviation |-> None, displayName |-> Some("Miami (ESPN)")]

OwnNoAbbrGame ==
    SchedOk(<< [date |-> [kind |-> "iso", day |-> 1],
                competitions |-> << <<OwnTeamNoAbbr, Opponent>> >>] >>)

ScheduleAnswers ==
    { OneGame, NotInTableGame, OwnNoAbbrGame, SchedOk(<<>>), SchedStatus(500),
      SchedRaise("Read timed out.") }

FailureWorlds ==
    { World(Josh, league, ForLeague(league, SearchOk(<<c>>), SearchStatus(500)),
            athlete, ForLeague(league, schedule, SchedStatus(500)), Noon) :
        league \in {"nfl", "nba"},
        c \in AthletePool,
        athlete \in AthleteAnswers,
        schedule \in ScheduleAnswers }

\* league detection: both leagues' search and schedule answers vary
AutoSearches ==
    { SearchRaise(""), SearchRaise("Read timed out."), SearchStatus(500),
      SearchOk(<<>>),
      SearchOk(<<Candidate(Some(Jose_accent), Some("p1"), <<MiamiCore>>)>>),
      SearchOk(<<Candidate(Some(Josh), None, <<>>),
                 Candidate(None, Some("p4"), <<IdOnlyCore>>)>>) }

AutoSchedules == { OneGame, SchedRaise(""), SchedRaise("Read timed out.") }

AutoWorlds ==
    { World(q, league, [nfl |-> s1, nba |-> s2], Receiver,
            [nfl |-> g1, nba |-> g2], Noon) :
        q \in {<<" ", "j", "o", "s", "e", " ">>, <<" ">>},
        league \in {"auto", "mlb"},
        s1 \in AutoSearches, s2 \in AutoSearches,
        g1 \in AutoSchedules, g2 \in AutoSchedules }

InitLookup ==
    /\ world \in MatchWorlds \cup ScheduleWorlds \cup FailureWorlds \cup AutoWorlds
    /\ result = NoResult
    /\ calls = <<>>
    /\ file = NoFile
    /\ request = NoRequest
    /\ before = <<>>
    /\ response = NoResponse
    /\ threads = NoThreads
    /\ lastSaver = 0

NextLookup == lookup_player

SpecLookup == InitLookup /\ [][NextLookup]_vars

\* the resolver the request names, and what its search answered
Asked == world.league \in {"nfl", "nba"} /\ result /= NoResult
Searched == IF world.league = "nfl" THEN world.search.nfl ELSE world.search.nba
Scheduled == IF world.league = "nfl" THEN world.schedule.nfl ELSE world.schedule.nba

(***************************************************************************)
(* What the store holds: the list a reader of entries.json gets.           *)
(***************************************************************************)
Stored == load_json(file)
Count == Len(Stored)

(***************************************************************************)
(* C1.  After every operation of any sequence of add_entry (id absent or   *)
(* any integer) and delete_entry (any non-negative id) from the empty      *)
(* store, the ids of the stored entries are exactly 0 .. count-1 and the   *)
(* entry at position k has id k.                                           *)
(***************************************************************************)
C1_IdsAreZeroToCountMinusOne ==
    /\ \A k \in 1 .. Count : Stored[k].id /= None
    /\ {Get(Stored[k].id) : k \in 1 .. Count} = 0 .. Count - 1
    /\ \A k \in 1 .. Count : Get(Stored[k].id) = k - 1

C1_Witness ==
    /\ request.op = "delete"
    /\ DeleteValid(before, Get(request.id))
    /\ Get(request.id) + 1 < Len(before)
    /\ Count >= 2
    /\ \E k \in 1 .. Len(before) : before[k].pick /= before[1].pick

(***************************************************************************)
(* C2.  add_entry on a store of n entries: an id in 0 .. n-1 replaces      *)
(* exactly that slot by the submitted entry, count and every other slot    *)
(* unchanged; an absent, negative or >= n id appends the submitted entry   *)
(* with id = n and changes no existing slot.                               *)
(***************************************************************************)
C2_UpsertReference ==
    request.op = "add" =>
        LET n == Len(before)
            submitted == [id |-> request.id, pick |-> request.pick]
            inRange == request.id /= None /\ Get(request.id) \in 0 .. n - 1
        IN  IF inRange
            THEN /\ Count = n
                 /\ Stored[Get(request.id) + 1] = submitted
                 /\ \A k \in 1 .. n :
                        k /= Get(request.id) + 1 => Stored[k] = before[k]
            ELSE /\ Count = n + 1
                 /\ Stored[n + 1] = [id |-> Some(n), pick |-> request.pick]
                 /\ \A k \in 1 .. n : Stored[k] = before[k]

C2_Witness ==
    /\ request.op = "add"
    /\ Len(before) >= 2
    /\ request.id /= None
    /\ \/ /\ Get(request.id) \in 0 .. Len(before) - 1
          /\ Stored[Get(request.id) + 1].pick /= before[Get(request.id) + 1].pick
       \/ /\ Get(request.id) < 0
          /\ Count = Len(before) + 1

(***************************************************************************)
(* C3.  delete_entry of a valid index i on a store of n entries removes    *)
(* exactly the entry at position i, lowers by one the id of every entry    *)
(* that was after it, and leaves every other field of the remaining        *)
(* entries, the ids before i and their order unchanged.                    *)
(***************************************************************************)
C3_DeleteRemovesOneAndShiftsIds ==
    (request.op = "delete" /\ DeleteValid(before, Get(request.id))) =>
        LET n == Len(before)
            i == Get(request.id)
        IN  /\ Count = n - 1
            /\ \A k \in 1 .. i : Stored[k] = before[k]
            /\ \A k \in i + 1 .. n - 1 :
                   /\ Stored[k].pick = before[k + 1].pick
                   /\ Get(Stored[k].id) = Get(before[k + 1].id) - 1

C3_Witness ==
    /\ request.op = "delete"
    /\ Len(before) >= 3
    /\ Get(request.id) \in 1 .. Len(before) - 2
    /\ Count = Len(before) - 1
    /\ before[1].pick /= before[Len(before)].pick

(***************************************************************************)
(* C8.  Two store mutations running concurrently, each a load of the whole *)
(* file followed by a save of the whole file, both report success and the  *)
(* file holds exactly the list saved by whichever request saved last: the  *)
(* other's update can be lost (the witness: an entry appended with success *)
(* is absent from the store though no request deleted anything).           *)
(***************************************************************************)
C8_LastSaveWins ==
    /\ \A t \in DOMAIN threads :
           threads[t].pc = "done" => threads[t].success
    /\ lastSaver /= 0 =>
           /\ file.state = "json"
           /\ Stored = threads[lastSaver].entries

C8_Witness ==
    /\ threads /= NoThreads
    /\ AllDone
    /\ \A t \in Requests :
           threads[t].op = "add" /\ threads[t].id = None /\ threads[t].success
    /\ \E t \in Requests :
           /\ t /= lastSaver
           /\ \A k \in 1 .. Count : Stored[k].pick /= threads[t].pick

(***************************************************************************)
(* C10 as stated.  get_teams returns exactly 90 names, all distinct, in    *)
(* ascending order: 31 NFL, 30 NBA and 30 MLB names.                       *)
(***************************************************************************)
C10_NinetyTeams ==
    request.op = "teams" =>
        /\ Len(response.entries) = 90
        /\ Len(nfl_teams) = 31
        /\ Len(nba_teams) = 30
        /\ Len(mlb_teams) = 30

(***************************************************************************)
(* C10 amended.  get_teams returns exactly 92 names, all distinct, in      *)
(* ascending lexicographic order: the union of the 32 NFL, 30 NBA and 30   *)
(* MLB full team names.                                                    *)
(***************************************************************************)
Range(seq) == {seq[k] : k \in 1 .. Len(seq)}

C10_NinetyTwoTeamsSorted ==
    request.op = "teams" =>
        LET body == response.entries
        IN  /\ Len(body) = 92
            /\ Cardinality(Range(body)) = 92
            /\ \A k \in 1 .. Len(body) - 1 : StrLess(body[k], body[k + 1])
            /\ Range(body) = Range(nfl_teams) \cup Range(nba_teams) \cup Range(mlb_teams)
            /\ Cardinality(Range(nfl_teams)) = 32
            /\ Cardinality(Range(nba_teams)) = 30
            /\ Cardinality(Range(mlb_teams)) = 30

C10_Witness ==
    /\ request.op = "teams"
    /\ response.kind = "teams"
    /\ Len(response.entries) > 0
    /\ Count > 0

(***************************************************************************)
(* Vocabulary of the resolver claims: the candidates the asked resolver's  *)
(* search returned, and those whose normalized display name is the         *)
(* normalized query.                                                       *)
(***************************************************************************)
SearchReturned == Asked /\ Searched.outcome = "ok" /\ Searched.status = 200
Items == Searched.items
Query == strip(world.player_name)
Matching ==
    {k \in 1 .. Len(Items) :
        normalize_name(GetOr(Items[k].displayName, <<>>)) = normalize_name(Query)}

\* a candidate as the ambiguous-match result lists it, and as a resolved
\* record names it
Listed(c) ==
    [name |-> c.displayName,
     team |-> IF c.teamRelationships = <<>>
                 \/ c.teamRelationships[1].abbreviation = None
              THEN "?"
              ELSE Get(c.teamRelationships[1].abbreviation)]

FirstFive == IF Len(Items) < 5 THEN Len(Items) ELSE 5

NamedAfter(c) ==
    /\ result.player = (IF c.displayName = None THEN Unknown ELSE Get(c.displayName))
    /\ IF c.teamRelationships = <<>>
       THEN result.team_abbr = "" /\ result.team = "Unknown"
       ELSE LET core == c.teamRelationships[1]
                abbr == IF core.abbreviation = None THEN "" ELSE Get(core.abbreviation)
                table == IF world.league = "nfl" THEN NFL_TEAMS ELSE NBA_TEAMS
            IN  /\ result.team_abbr = abbr
                /\ result.team =
                       (IF core.displayName /= None THEN Get(core.displayName)
                        ELSE IF abbr \in DOMAIN table THEN table[abbr]
                        ELSE "Unknown")

(***************************************************************************)
(* C4 as stated.  For both resolvers, two or more candidates of which none *)
(* or two or more match the query exactly give an ambiguous-match result   *)
(* listing the first min(5, n) candidates in provider order.               *)
(***************************************************************************)
C4_AmbiguousUnlessExactlyOneMatch ==
    (SearchReturned /\ Len(Items) >= 2 /\ Cardinality(Matching) /= 1) =>
        /\ result.kind = "multiple"
        /\ result.multiple = [k \in 1 .. FirstFive |-> Listed(Items[k])]

(***************************************************************************)
(* C4 amended.  For both resolvers, two or more candidates of which none   *)
(* matches the query exactly give an ambiguous-match result listing the    *)
(* first min(5, n) candidates in provider order; when two or more match,   *)
(* the result is not ambiguous: resolution proceeds with the first match   *)
(* in provider order.                                                      *)
(***************************************************************************)
C4_AmbiguousIffNoMatch ==
    (SearchReturned /\ Len(Items) >= 2) =>
        /\ Matching = {} =>
               /\ result.kind = "multiple"
               /\ result.multiple = [k \in 1 .. FirstFive |-> Listed(Items[k])]
        /\ Cardinality(Matching) >= 2 =>
               /\ result.kind /= "multiple"
               /\ result.kind = "resolved" => NamedAfter(Items[Min(Matching)])
               /\ Scheduled.outcome = "ok" => result.kind = "resolved"

C4_Witness ==
    /\ SearchReturned
    /\ Len(Items) > 5
    /\ Matching = {}
    /\ result.kind = "multiple"
    /\ Len(result.multiple) = 5
    /\ \E k \in 1 .. 5 : result.multiple[k].team /= result.multiple[1].team

(***************************************************************************)
(* C5.  In auto mode the NFL resolution is attempted first; the NBA        *)
(* resolution is attempted if and only if the NFL resolution returned an   *)
(* error result, whatever its message; the NFL result is returned when it  *)
(* is not an error, otherwise the NBA result when it is not an error, and  *)
(* the combined "not found in NFL or NBA" error when both are errors.      *)
(***************************************************************************)
C5_AutoTriesNbaIffNflErrors ==
    (world.league \notin {"none", "nfl", "nba"} /\ result /= NoResult
        /\ Query /= <<>>) =>
        LET nfl_result == get_nfl_player_info(Query, world).result
            nba_result == get_nba_player_info(Query, world).result
            nba_attempted == \E k \in 1 .. Len(calls) : calls[k] = "nba_search"
        IN  /\ calls /= <<>>
            /\ calls[1] = "nfl_search"
            /\ nba_attempted <=> nfl_result.kind = "error"
            /\ result =
                   (IF nfl_result.kind /= "error" THEN nfl_result
                    ELSE IF nba_result.kind /= "error" THEN nba_result
                    ELSE Err("No player found matching in NFL or NBA"))

(***************************************************************************)
(* C6.  A failure of the schedule request or of the NFL athlete request,   *)
(* a non-success status or a raised timeout or connection error, is a      *)
(* failure of that request only: the resolution still returns a resolved   *)
(* record, with next opponent and game date absent when the failed request *)
(* was the schedule one, and never an error result.                        *)
(***************************************************************************)
Failed(answer) == answer.outcome = "raise" \/ answer.status /= 200

Made(call) == \E k \in 1 .. Len(calls) : calls[k] = call

AthleteFailed == Made("nfl_athlete") /\ Failed(world.athlete)

ScheduleFailed ==
    \/ Made("nfl_schedule") /\ Failed(world.schedule.nfl)
    \/ Made("nba_schedule") /\ Failed(world.schedule.nba)

C6_LaterFailuresAreLocal ==
    (Asked /\ (AthleteFailed \/ ScheduleFailed)) =>
        /\ result.kind = "resolved"
        /\ ScheduleFailed =>
               result.next_opponent = None /\ result.game_date = None

(***************************************************************************)
(* C7 as stated.  With reference date the local date, one day later from   *)
(* 22:00: when the schedule request succeeds, game date and opponent are   *)
(* taken from the first event in provider order whose UTC date is on or    *)
(* after the reference date, and the two fields are absent only if no      *)
(* event has such a date.                                                  *)
(***************************************************************************)
ScheduleFetched ==
    /\ Asked
    /\ result.kind = "resolved"
    /\ Made("nfl_schedule") \/ Made("nba_schedule")
    /\ Scheduled.outcome = "ok"
    /\ Scheduled.status = 200

ClaimedReferenceDay ==
    IF world.now.hour >= 22 THEN world.now.day + 1 ELSE world.now.day

Qualifying ==
    {k \in 1 .. Len(Scheduled.events) :
        /\ Scheduled.events[k].date.kind = "iso"
        /\ Scheduled.events[k].date.day >= ClaimedReferenceDay}

CompetitorName(comp) ==
    LET abbr == IF comp.abbreviation = None THEN "" ELSE Get(comp.abbreviation)
        table == IF world.league = "nfl" THEN NFL_TEAMS ELSE NBA_TEAMS
    IN  IF abbr \in DOMAIN table THEN table[abbr]
        ELSE IF comp.displayName /= None THEN Get(comp.displayName)
        ELSE "Unknown"

C7_FirstQualifyingEventDecides ==
    ScheduleFetched =>
        IF Qualifying = {}
        THEN result.next_opponent = None /\ result.game_date = None
        ELSE LET event == Scheduled.events[Min(Qualifying)]
             IN  /\ result.game_date = Some(event.date.day)
                 /\ event.competitions /= <<>>
                 /\ \E k \in 1 .. Len(event.competitions[1]) :
                        result.next_opponent =
                            Some(CompetitorName(event.competitions[1][k]))

(***************************************************************************)
(* C7 amended.  When the schedule request succeeds, the next game is the   *)
(* first event in provider order whose UTC date is on or after the         *)
(* reference date; game date and opponent are taken from that event when   *)
(* its first competition has a competitor whose abbreviation is not the    *)
(* player's team's (the first such competitor is the opponent); the two    *)
(* fields are absent only if no event has such a date or that event has no *)
(* such competitor.                                                        *)
(***************************************************************************)
C7_FirstQualifyingEventOrNothing ==
    ScheduleFetched =>
        IF Qualifying = {}
        THEN result.next_opponent = None /\ result.game_date = None
        ELSE LET event == Scheduled.events[Min(Qualifying)]
                 competitors == IF event.competitions = <<>>
                                THEN <<>>
                                ELSE event.competitions[1]
                 others == {k \in 1 .. Len(competitors) :
                               (IF competitors[k].abbreviation = None THEN ""
                                ELSE Get(competitors[k].abbreviation))
                                   /= result.team_abbr}
             IN  IF others = {}
                 THEN result.next_opponent = None /\ result.game_date = None
                 ELSE /\ result.game_date = Some(event.date.day)
                      /\ result.next_opponent =
                             Some(CompetitorName(competitors[Min(others)]))

C7_Witness ==
    /\ ScheduleFetched
    /\ world.now.hour >= 22
    /\ Len(Scheduled.events) >= 2
    /\ Scheduled.events[1].date = [kind |-> "iso", day |-> world.now.day]
    /\ Scheduled.events[1].competitions /= <<>>
    /\ Qualifying /= {}
    /\ Min(Qualifying) = 2
    /\ result.game_date = Some(world.now.day + 1)
    /\ result.next_opponent /= None

(***************************************************************************)
(* C9.  For both resolvers, a sole candidate, or the one candidate among   *)
(* two or more whose normalized display name is the normalized query, is   *)
(* the one resolution proceeds with, wherever it sits in the list: the     *)
(* result is never an ambiguous-match result and the resolved player name  *)
(* and team are that candidate's.                                          *)
(***************************************************************************)
C9_SoleOrOnlyMatchIsResolved ==
    (SearchReturned /\ (Len(Items) = 1 \/ (Len(Items) >= 2 /\ Cardinality(Matching) = 1))) =>
        LET c == IF Len(Items) = 1 THEN Items[1] ELSE Items[Min(Matching)]
        IN  /\ result.kind /= "multiple"
            /\ result.kind = "resolved" => NamedAfter(c)
            /\ Scheduled.outcome = "ok" => result.kind = "resolved"

C9_Witness ==
    /\ SearchReturned
    /\ Len(Items) >= 3
    /\ Cardinality(Matching) = 1
    /\ Min(Matching) = Len(Items)
    /\ Items[Min(Matching)].displayName = Some(Jose_accent)
    /\ Query = jose_query
    /\ result.kind = "resolved"
    /\ result.player = Jose_accent

(***************************************************************************)
(* C11.  The id invariant survives races: with add_entry and delete_entry  *)
(* requests interleaved at their load and save steps, from a store whose   *)
(* ids are 0 .. count-1, every content the backing file ever holds has ids *)
(* exactly 0 .. count-1 in position order, even when updates are lost.     *)
(***************************************************************************)
C11_RacedFileKeepsIds ==
    threads /= NoThreads =>
        /\ file.state \in {"missing", "json"}
        /\ \A k \in 1 .. Len(file.data) :
               /\ file.data[k].id /= None
               /\ Get(file.data[k].id) = k - 1
        /\ {Get(file.data[k].id) : k \in 1 .. Len(file.data)}
               = 0 .. Len(file.data) - 1

\* a delete that renumbered and an append, both loaded from the same
\* content, so that the save of one overwrote the other's
C11_Witness ==
    /\ threads /= NoThreads
    /\ AllDone
    /\ \E t \in Requests, u \in Requests :
           /\ threads[t].op = "delete"
           /\ threads[u].op = "add"
           /\ threads[u].id = None
           /\ lastSaver = t
           /\ Len(threads[u].entries) >= 3
           /\ Len(threads[t].entries) + 2 = Len(threads[u].entries)
           /\ Count = Len(threads[t].entries)
           /\ Count >= 1

(***************************************************************************)
(* C12.  In every resolved record whose next opponent is present, the      *)
(* opponent is a competitor of the chosen event other than the player's    *)
(* own team (the team whose schedule was fetched), also when the player's  *)
(* team has an identifier but no abbreviation or a competitor's            *)
(* abbreviation is missing.                                                *)
(***************************************************************************)
\* the candidate the resolver went on with, and the team whose schedule it
\* fetched
Proceeded == IF Len(Items) = 1 THEN Items[1] ELSE Items[Min(Matching)]

FetchedTeamId == Get(Proceeded.teamRelationships[1].id)

C12_OpponentIsAnotherTeam ==
    (ScheduleFetched /\ result.next_opponent /= None) =>
        /\ Qualifying /= {}
        /\ LET event == Scheduled.events[Min(Qualifying)]
               competitors == IF event.competitions = <<>>
                              THEN <<>>
                              ELSE event.competitions[1]
           IN  \E k \in 1 .. Len(competitors) :
                   /\ competitors[k].id /= FetchedTeamId
                   /\ result.next_opponent = Some(CompetitorName(competitors[k]))

============================================================================
